---- MODULE Spec2Model ----
(***************************************************************************)
(* Model of crates/rlbot/src/lib.rs: the Packet tag registry, the frame    *)
(* codec (Packet::build / Packet::from_payload) and RLBotConnection        *)
(* (send_packet / recv_packet) over one direction of a TCP stream.         *)
(*                                                                         *)
(* Byte strings (Vec<u8>, &[u8], the bytes in flight on the stream) are    *)
(* kept run-length encoded: a sequence of <<byte, count>> runs, count >= 1,*)
(* adjacent runs holding different bytes.  The encoding is canonical, so   *)
(* equality of two encodings is equality of the byte strings, and a        *)
(* payload of more than 65535 bytes is a value of a few runs.              *)
(***************************************************************************)
EXTENDS Integers, Sequences, FiniteSets, TLC

(***************************************************************************)
(* Bounds of the model.                                                    *)
(***************************************************************************)
MaxMsgs == 2        \* send_packet calls in one behaviour
MaxRecv == 3        \* recv_packet calls in one behaviour
MaxRaw == 9         \* bytes an arbitrary peer writes in one behaviour
MaxLiveRaw == 6     \* the same in the specification with fairness
MaxField == 0       \* largest valid value of the payload's scalar field
MaxPayload == 3     \* length of the byte strings from_payload is applied to

(***************************************************************************)
(* Program constants.                                                      *)
(***************************************************************************)
U16Max == 65535     \* u16::MAX
HeaderLen == 4      \* let mut buf = [0u8; 4]

(***************************************************************************)
(* Run-length encoded byte strings.                                        *)
(***************************************************************************)
Fill(b, n) == IF n = 0 THEN <<>> ELSE << <<b, n>> >>

RECURSIVE BLen(_)
BLen(s) == IF s = <<>> THEN 0 ELSE Head(s)[2] + BLen(Tail(s))

BCat(s, t) ==
    IF s = <<>> THEN t
    ELSE IF t = <<>> THEN s
    ELSE IF s[Len(s)][1] = t[1][1]
         THEN SubSeq(s, 1, Len(s) - 1)
                \o << <<t[1][1], s[Len(s)][2] + t[1][2]>> >>
                \o Tail(t)
         ELSE s \o t

RECURSIVE BTake(_, _)
BTake(s, k) ==
    IF k = 0 \/ s = <<>> THEN <<>>
    ELSE IF Head(s)[2] <= k
         THEN BCat(<<Head(s)>>, BTake(Tail(s), k - Head(s)[2]))
         ELSE << <<Head(s)[1], k>> >>

RECURSIVE BDrop(_, _)
BDrop(s, k) ==
    IF k = 0 \/ s = <<>> THEN s
    ELSE IF Head(s)[2] <= k
         THEN BDrop(Tail(s), k - Head(s)[2])
         ELSE << <<Head(s)[1], Head(s)[2] - k>> >> \o Tail(s)

RECURSIVE BAt(_, _)
BAt(s, i) == IF i <= Head(s)[2] THEN Head(s)[1] ELSE BAt(Tail(s), i - Head(s)[2])

RECURSIVE Bytes(_)
Bytes(q) == IF q = <<>> THEN <<>> ELSE BCat(Fill(Head(q), 1), Bytes(Tail(q)))

(***************************************************************************)
(* Fixed-width integers.                                                   *)
(***************************************************************************)
AsU16(n) == n % (U16Max + 1)
to_be_bytes(x) == Bytes(<<x \div 256, x % 256>>)
\* faulty variant: the two bytes read in little-endian order
from_le_bytes(hi, lo) == lo * 256 + hi
from_be_bytes(hi, lo) == hi * 256 + lo

(***************************************************************************)
(* Packet: the 16 variants.  A payload-carrying variant wraps one owned    *)
(* payload value; the schema layer's payload types are modelled by one     *)
(* scalar field and one byte vector.  The sentinels carry the unit value.  *)
(***************************************************************************)
Sentinels == {"None", "InitComplete"}

PayloadVariants ==
    {"GamePacket", "FieldInfo", "StartCommand", "MatchConfiguration",
     "PlayerInput", "DesiredGameState", "RenderGroup", "RemoveRenderGroup",
     "MatchComm", "BallPrediction", "ConnectionSettings", "StopCommand",
     "SetLoadout", "ControllableTeamInfo"}

Variants == Sentinels \cup PayloadVariants

Unit == [field |-> 0, content |-> <<>>]
Pkt(v, x) == [variant |-> v, payload |-> x]
NoPacket == Pkt("-", Unit)

(***************************************************************************)
(* The schema layer (rlbot_flat / planus), by its contract: finish writes  *)
(* a root offset that points at the table, the table holds the scalar      *)
(* field followed by the vector's bytes; read_as_root checks only that the *)
(* root offset lands inside the buffer; the conversion of the view to the  *)
(* owned value (TryFrom) reads the fields and fails on a field value the   *)
(* schema does not define.                                                 *)
(***************************************************************************)
finish(x) == BCat(Bytes(<<1, x.field>>), x.content)

read_as_root(payload) ==
    IF BLen(payload) = 0
    THEN [ok |-> FALSE, buf |-> payload, pos |-> 0]
    ELSE LET off == BAt(payload, 1)
         IN IF off = 0 \/ 1 + off > BLen(payload)
            THEN [ok |-> FALSE, buf |-> payload, pos |-> 0]
            ELSE [ok |-> TRUE, buf |-> payload, pos |-> 1 + off]

try_into(view) ==
    LET f == BAt(view.buf, view.pos)
    IN IF f > MaxField
       THEN [ok |-> FALSE, value |-> Unit]
       ELSE [ok |-> TRUE,
             value |-> [field |-> f, content |-> BDrop(view.buf, view.pos)]]

\* faulty variant: ControllableTeamInfo given the tag of InitComplete
data_type_dup(packet) ==
    CASE packet.variant = "None" -> 0
      [] packet.variant = "GamePacket" -> 1
      [] packet.variant = "FieldInfo" -> 2
      [] packet.variant = "StartCommand" -> 3
      [] packet.variant = "MatchConfiguration" -> 4
      [] packet.variant = "PlayerInput" -> 5
      [] packet.variant = "DesiredGameState" -> 6
      [] packet.variant = "RenderGroup" -> 7
      [] packet.variant = "RemoveRenderGroup" -> 8
      [] packet.variant = "MatchComm" -> 9
      [] packet.variant = "BallPrediction" -> 10
      [] packet.variant = "ConnectionSettings" -> 11
      [] packet.variant = "StopCommand" -> 12
      [] packet.variant = "SetLoadout" -> 13
      [] packet.variant = "InitComplete" -> 14
      [] packet.variant = "ControllableTeamInfo" -> 14

(***************************************************************************)
(* Packet::data_type                                                       *)
(***************************************************************************)
data_type(packet) ==
    CASE packet.variant = "None" -> 0
      [] packet.variant = "GamePacket" -> 1
      [] packet.variant = "FieldInfo" -> 2
      [] packet.variant = "StartCommand" -> 3
      [] packet.variant = "MatchConfiguration" -> 4
      [] packet.variant = "PlayerInput" -> 5
      [] packet.variant = "DesiredGameState" -> 6
      [] packet.variant = "RenderGroup" -> 7
      [] packet.variant = "RemoveRenderGroup" -> 8
      [] packet.variant = "MatchComm" -> 9
      [] packet.variant = "BallPrediction" -> 10
      [] packet.variant = "ConnectionSettings" -> 11
      [] packet.variant = "StopCommand" -> 12
      [] packet.variant = "SetLoadout" -> 13
      [] packet.variant = "InitComplete" -> 14
      [] packet.variant = "ControllableTeamInfo" -> 15

(***************************************************************************)
(* Packet::build.  The builder is modelled by the bytes its buffer holds;  *)
(* the macro p! clears it and then serializes the payload into it.         *)
(***************************************************************************)
\* faulty variant: the builder is not cleared before the payload is serialized
build_p_noclear(x, b) ==
    LET finished == BCat(b, finish(x))
    IN [bytes |-> finished, builder |-> finished]

build_p(x, b) ==
    LET cleared == <<>>
        finished == BCat(cleared, finish(x))
    IN [bytes |-> finished, builder |-> finished]

build(packet, b) ==
    CASE packet.variant = "None" -> [bytes |-> <<>>, builder |-> b]
      [] packet.variant = "InitComplete" -> [bytes |-> <<>>, builder |-> b]
      [] OTHER -> build_p(packet.payload, b)

(***************************************************************************)
(* Packet::from_payload.  The macro p! is read_as_root(payload)? followed  *)
(* by try_into().unwrap(): a failed read_as_root is the error value        *)
(* InvalidFlatbuffer, a failed try_into panics.                            *)
(***************************************************************************)
ParseOk(p) == [kind |-> "Ok", packet |-> p, tag |-> 0]
ParseErr(k, t) == [kind |-> k, packet |-> NoPacket, tag |-> t]

from_payload_p(variant, payload) ==
    LET view == read_as_root(payload)
    IN IF ~view.ok THEN ParseErr("InvalidFlatbuffer", 0)
       ELSE LET owned == try_into(view)
            IN IF ~owned.ok THEN ParseErr("Panic", 0)
               ELSE ParseOk(Pkt(variant, owned.value))

\* faulty variant: an unknown tag decodes to the default variant
from_payload_default(dt, payload) ==
    CASE dt = 0 -> ParseOk(Pkt("None", Unit))
      [] dt = 1 -> from_payload_p("GamePacket", payload)
      [] dt = 2 -> from_payload_p("FieldInfo", payload)
      [] dt = 3 -> from_payload_p("StartCommand", payload)
      [] dt = 4 -> from_payload_p("MatchConfiguration", payload)
      [] dt = 5 -> from_payload_p("PlayerInput", payload)
      [] dt = 6 -> from_payload_p("DesiredGameState", payload)
      [] dt = 7 -> from_payload_p("RenderGroup", payload)
      [] dt = 8 -> from_payload_p("RemoveRenderGroup", payload)
      [] dt = 9 -> from_payload_p("MatchComm", payload)
      [] dt = 10 -> from_payload_p("BallPrediction", payload)
      [] dt = 11 -> from_payload_p("ConnectionSettings", payload)
      [] dt = 12 -> from_payload_p("StopCommand", payload)
      [] dt = 13 -> from_payload_p("SetLoadout", payload)
      [] dt = 14 -> ParseOk(Pkt("InitComplete", Unit))
      [] dt = 15 -> from_payload_p("ControllableTeamInfo", payload)
      [] OTHER -> ParseOk(Pkt("None", Unit))

\* faulty variant: a sentinel tag with payload bytes is rejected
from_payload_strict(dt, payload) ==
    CASE dt = 0 -> IF payload = <<>> THEN ParseOk(Pkt("None", Unit))
                   ELSE ParseErr("InvalidFlatbuffer", 0)
      [] dt = 1 -> from_payload_p("GamePacket", payload)
      [] dt = 2 -> from_payload_p("FieldInfo", payload)
      [] dt = 3 -> from_payload_p("StartCommand", payload)
      [] dt = 4 -> from_payload_p("MatchConfiguration", payload)
      [] dt = 5 -> from_payload_p("PlayerInput", payload)
      [] dt = 6 -> from_payload_p("DesiredGameState", payload)
      [] dt = 7 -> from_payload_p("RenderGroup", payload)
      [] dt = 8 -> from_payload_p("RemoveRenderGroup", payload)
      [] dt = 9 -> from_payload_p("MatchComm", payload)
      [] dt = 10 -> from_payload_p("BallPrediction", payload)
      [] dt = 11 -> from_payload_p("ConnectionSettings", payload)
      [] dt = 12 -> from_payload_p("StopCommand", payload)
      [] dt = 13 -> from_payload_p("SetLoadout", payload)
      [] dt = 14 -> IF payload = <<>> THEN ParseOk(Pkt("InitComplete", Unit))
                    ELSE ParseErr("InvalidFlatbuffer", 0)
      [] dt = 15 -> from_payload_p("ControllableTeamInfo", payload)
      [] OTHER -> ParseErr("InvalidDataType", dt)

from_payload(dt, payload) ==
    CASE dt = 0 -> ParseOk(Pkt("None", Unit))
      [] dt = 1 -> from_payload_p("GamePacket", payload)
      [] dt = 2 -> from_payload_p("FieldInfo", payload)
      [] dt = 3 -> from_payload_p("StartCommand", payload)
      [] dt = 4 -> from_payload_p("MatchConfiguration", payload)
      [] dt = 5 -> from_payload_p("PlayerInput", payload)
      [] dt = 6 -> from_payload_p("DesiredGameState", payload)
      [] dt = 7 -> from_payload_p("RenderGroup", payload)
      [] dt = 8 -> from_payload_p("RemoveRenderGroup", payload)
      [] dt = 9 -> from_payload_p("MatchComm", payload)
      [] dt = 10 -> from_payload_p("BallPrediction", payload)
      [] dt = 11 -> from_payload_p("ConnectionSettings", payload)
      [] dt = 12 -> from_payload_p("StopCommand", payload)
      [] dt = 13 -> from_payload_p("SetLoadout", payload)
      [] dt = 14 -> ParseOk(Pkt("InitComplete", Unit))
      [] dt = 15 -> from_payload_p("ControllableTeamInfo", payload)
      [] OTHER -> ParseErr("InvalidDataType", dt)

(***************************************************************************)
(* std::io::Read::read_exact on the TcpStream.  stream holds the bytes     *)
(* written by the peer and not yet read.  With n bytes available the read  *)
(* succeeds and takes exactly n; on a stream the peer has closed a short   *)
(* read takes what is left and fails (UnexpectedEof); on a failed          *)
(* transport the read fails.  On an open stream with fewer than n bytes    *)
(* the call blocks (can_read is false).                                    *)
(***************************************************************************)
can_read(stream, st, n) == st # "open" \/ BLen(stream) >= n

\* faulty variant: a single read, which at end of stream returns Ok with the bytes
\* it got and leaves the rest of the buffer zero
read_short(stream, st, n) ==
    IF st = "broken"
    THEN [ok |-> FALSE, data |-> <<>>, rest |-> stream]
    ELSE IF BLen(stream) >= n
         THEN [ok |-> TRUE, data |-> BTake(stream, n), rest |-> BDrop(stream, n)]
         ELSE [ok |-> TRUE, data |-> BCat(stream, Fill(0, n - BLen(stream))),
               rest |-> <<>>]

read_exact(stream, st, n) ==
    IF st = "broken"
    THEN [ok |-> FALSE, data |-> <<>>, rest |-> stream]
    ELSE IF BLen(stream) >= n
         THEN [ok |-> TRUE, data |-> BTake(stream, n), rest |-> BDrop(stream, n)]
         ELSE [ok |-> FALSE, data |-> stream, rest |-> <<>>]

(***************************************************************************)
(* RLBotConnection.recv_buf, an array of u16::MAX bytes, and the slice     *)
(* recv_buf[0..data_len] of recv_packet: taking the slice panics when      *)
(* data_len exceeds the array; read_exact fills the slice from its start   *)
(* and leaves the rest of the array as it was; the slice is what           *)
(* from_payload is given.                                                  *)
(***************************************************************************)
\* faulty variant: an array one byte shorter
RecvBufLenShort == U16Max - 1
RecvBufLen == U16Max

slice_in_range(rb, n) == n <= BLen(rb)

fill_slice(rb, data) == BCat(data, BDrop(rb, BLen(data)))

\* faulty variant: the whole array is handed to the decoder
payload_slice_all(rb, n) == rb
payload_slice(rb, n) == BTake(rb, n)

(***************************************************************************)
(* send_packet_enum, up to the write: the frame handed to write_all.       *)
(***************************************************************************)
encode_frame(packet, b) ==
    LET data_type_bin == to_be_bytes(data_type(packet))
        built == build(packet, b)
        payload == built.bytes
        data_len_bin == to_be_bytes(AsU16(BLen(payload)))
        joined == BCat(BCat(data_type_bin, data_len_bin), payload)
    IN [joined |-> joined, payload_len |-> BLen(payload), builder |-> built.builder]

(***************************************************************************)
(* send_packet_enum, the I/O: write_all(&joined)? then flush()?.  write_ok *)
(* and flush_ok are the outcomes of the two calls on the stream; writes    *)
(* and flushes count the calls made.  A failed write_all puts nothing on   *)
(* the stream.                                                             *)
(***************************************************************************)
\* faulty variant: a failed write is tried a second time
send_io_retry(joined, write_ok, flush_ok) ==
    IF ~write_ok
    THEN [written |-> <<>>, writes |-> 2, flushes |-> 0, result |-> "Connection"]
    ELSE IF ~flush_ok
         THEN [written |-> joined, writes |-> 1, flushes |-> 1, result |-> "Connection"]
         ELSE [written |-> joined, writes |-> 1, flushes |-> 1, result |-> "Ok"]

send_io(joined, write_ok, flush_ok) ==
    IF ~write_ok
    THEN [written |-> <<>>, writes |-> 1, flushes |-> 0, result |-> "Connection"]
    ELSE IF ~flush_ok
         THEN [written |-> joined, writes |-> 1, flushes |-> 1, result |-> "Connection"]
         ELSE [written |-> joined, writes |-> 1, flushes |-> 1, result |-> "Ok"]

(***************************************************************************)
(* Inputs.                                                                 *)
(***************************************************************************)
SmallContents == {<<>>, Fill(0, 1)}
BigContents == {Fill(0, U16Max - 2), Fill(0, U16Max - 1), Fill(0, U16Max + 1)}

\* the packets the codec is applied to
Messages ==
    {Pkt(v, Unit) : v \in Sentinels}
      \cup {Pkt(v, [field |-> f, content |-> c]) :
              v \in PayloadVariants, f \in 0..MaxField,
              c \in SmallContents \cup BigContents}

\* the packets passed to send_packet
WireMessages ==
    {Pkt(v, Unit) : v \in Sentinels}
      \cup {Pkt(v, [field |-> 0, content |-> <<>>]) :
              v \in {"GamePacket", "ControllableTeamInfo"}}
      \cup {Pkt("MatchComm", [field |-> f, content |-> c]) :
              f \in 0..MaxField, c \in SmallContents}
      \cup {Pkt("MatchComm", [field |-> 0, content |-> c]) : c \in BigContents}

RawBytes == {0, 1, 2}
RawStrings(n) == {Bytes(q) : q \in UNION {[1..k -> RawBytes] : k \in 0..n}}
RawTags == 0..17 \cup {255, 256, 9999, U16Max}

(***************************************************************************)
(* State.                                                                  *)
(***************************************************************************)
VARIABLES
    stream,     \* bytes written to the TcpStream and not yet read by the receiver
    status,     \* "open", "closed" (the writer dropped its end), "broken" (I/O error)
    builder,    \* sender's RLBotConnection.builder: the bytes its buffer holds
    recv_buf,   \* receiver's RLBotConnection.recv_buf
    pc,         \* receiver: "idle", "payload" (inside recv_packet, header read), "aborted"
    hdr,        \* data_type and data_len of the recv_packet call in progress
    log,        \* history: every byte ever written to the stream
    rpos,       \* history: number of bytes the receiver has read
    cur_start,  \* history: rpos at the start of the recv_packet call in progress
    sent,       \* history: the packets of the send_packet calls that returned Ok
    last_send,  \* history: the last send_packet call
    results,    \* history: one record per recv_packet call that has ended
    nraw,       \* number of bytes written by the arbitrary peer
    nsend,      \* number of send_packet calls made
    ctor,       \* RLBotConnection::new: its arguments, the outcomes of its calls, its result
    codec       \* the codec's functions applied to one input

vars == <<stream, status, builder, recv_buf, pc, hdr, log, rpos, cur_start,
          sent, last_send, results, nraw, nsend, ctor, codec>>

conn_vars == <<stream, status, builder, recv_buf, pc, hdr, log, rpos, cur_start,
               sent, last_send, results, nraw, nsend, ctor>>

NoHdr == [data_type |-> 0, data_len |-> 0]
NoSend == [packet |-> NoPacket, payload_len |-> 0, written |-> <<>>, result |-> "-",
           write_ok |-> TRUE, flush_ok |-> TRUE, writes |-> 0, flushes |-> 0]
CodecIdle == [pc |-> "-", origin |-> "-", packet |-> NoPacket, tag |-> 0,
              bytes |-> <<>>, frame |-> <<>>, result |-> ParseErr("-", 0)]
Connection == [kind |-> "Connection", packet |-> NoPacket, tag |-> 0]

(***************************************************************************)
(* RLBotConnection::new.  The address text is kept as its dot-separated    *)
(* numbers and the number after the colon (-1: no port); from_str accepts  *)
(* four numbers of one byte each and a 16-bit port.  connect_ok and        *)
(* nodelay_ok are the outcomes of TcpStream::connect and set_nodelay.      *)
(***************************************************************************)
from_str(addr) ==
    [ok |-> /\ Len(addr.octets) = 4
            /\ \A i \in 1..Len(addr.octets) : addr.octets[i] \in 0..255
            /\ addr.port \in 0..U16Max]

\* faulty variant: the result of set_nodelay is ignored
new_ignore_nodelay(addr, connect_ok, nodelay_ok) ==
    IF ~from_str(addr).ok
    THEN [result |-> "InvalidAddrError", attempted |-> FALSE, nodelay |-> FALSE,
          conn |-> FALSE]
    ELSE IF ~connect_ok
         THEN [result |-> "Connection", attempted |-> TRUE, nodelay |-> FALSE,
               conn |-> FALSE]
         ELSE [result |-> "Ok", attempted |-> TRUE, nodelay |-> nodelay_ok,
               conn |-> TRUE]

new(addr, connect_ok, nodelay_ok) ==
    IF ~from_str(addr).ok
    THEN [result |-> "InvalidAddrError", attempted |-> FALSE, nodelay |-> FALSE,
          conn |-> FALSE]
    ELSE IF ~connect_ok
         THEN [result |-> "Connection", attempted |-> TRUE, nodelay |-> FALSE,
               conn |-> FALSE]
         ELSE IF ~nodelay_ok
              THEN [result |-> "Connection", attempted |-> TRUE, nodelay |-> FALSE,
                    conn |-> FALSE]
              ELSE [result |-> "Ok", attempted |-> TRUE, nodelay |-> TRUE,
                    conn |-> TRUE]

Addresses ==
    {[octets |-> o, port |-> p] :
        o \in UNION {[1..k -> {0, 255, 256}] : k \in 3..5},
        p \in {-1, 0, U16Max, U16Max + 1}}

Ctor(pcv, addr, connect_ok, nodelay_ok, out) ==
    [pc |-> pcv, addr |-> addr, connect_ok |-> connect_ok, nodelay_ok |-> nodelay_ok,
     result |-> out.result, attempted |-> out.attempted, nodelay |-> out.nodelay,
     conn |-> out.conn]

NotCalled == [result |-> "-", attempted |-> FALSE, nodelay |-> FALSE, conn |-> FALSE]

Constructed ==
    LET addr == [octets |-> <<0, 0, 0, 0>>, port |-> 0]
    IN Ctor("done", addr, TRUE, TRUE, new(addr, TRUE, TRUE))

(***************************************************************************)
(* RLBotConnection::new on both ends, stream connected.                    *)
(***************************************************************************)
ConnInit ==
    /\ stream = <<>>
    /\ status = "open"
    /\ builder = <<>>
    /\ recv_buf = Fill(0, RecvBufLen)
    /\ pc = "idle"
    /\ hdr = NoHdr
    /\ log = <<>>
    /\ rpos = 0
    /\ cur_start = 0
    /\ sent = <<>>
    /\ last_send = NoSend
    /\ results = <<>>
    /\ nraw = 0
    /\ nsend = 0
    /\ ctor = Constructed

Init == ConnInit /\ codec = CodecIdle

(***************************************************************************)
(* send_packet / send_packet_enum.  write_all fails on a failed transport; *)
(* flush either succeeds or reports an I/O error, the transport having     *)
(* failed after the write.                                                 *)
(***************************************************************************)
SendPacket ==
    /\ status # "closed"
    /\ nsend < MaxMsgs
    /\ \E packet \in WireMessages, flush_ok \in BOOLEAN :
         LET f == encode_frame(packet, builder)
             write_ok == status = "open"
             io == send_io(f.joined, write_ok, flush_ok)
         IN /\ builder' = f.builder
            /\ stream' = BCat(stream, io.written)
            /\ log' = BCat(log, io.written)
            /\ sent' = IF io.result = "Ok" THEN Append(sent, packet) ELSE sent
            /\ status' = IF write_ok /\ ~flush_ok THEN "broken" ELSE status
            /\ last_send' = [packet |-> packet, payload_len |-> f.payload_len,
                             written |-> io.written, result |-> io.result,
                             write_ok |-> write_ok, flush_ok |-> flush_ok,
                             writes |-> io.writes, flushes |-> io.flushes]
    /\ nsend' = nsend + 1
    /\ UNCHANGED <<recv_buf, pc, hdr, rpos, cur_start, results, nraw, ctor, codec>>

(***************************************************************************)
(* recv_packet, first read: the 4 header bytes.                            *)
(***************************************************************************)
Result(start, consumed, got_header, h, decoded, outcome) ==
    [start |-> start, consumed |-> consumed, got_header |-> got_header,
     data_type |-> h.data_type, data_len |-> h.data_len,
     decoded |-> decoded, outcome |-> outcome]

RecvHeader ==
    /\ pc = "idle"
    /\ Len(results) < MaxRecv
    /\ can_read(stream, status, HeaderLen)
    /\ LET r == read_exact(stream, status, HeaderLen)
           buf == r.data
       IN /\ stream' = r.rest
          /\ rpos' = rpos + BLen(r.data)
          /\ cur_start' = rpos
          /\ IF r.ok
             THEN /\ hdr' = [data_type |-> from_be_bytes(BAt(buf, 1), BAt(buf, 2)),
                             data_len |-> from_be_bytes(BAt(buf, 3), BAt(buf, 4))]
                  /\ pc' = "payload"
                  /\ UNCHANGED results
             ELSE /\ results' = Append(results,
                        Result(rpos, BLen(r.data), FALSE, NoHdr, <<>>, Connection))
                  /\ UNCHANGED <<hdr, pc>>
    /\ UNCHANGED <<status, builder, recv_buf, log, sent, last_send, nraw, nsend, ctor, codec>>

(***************************************************************************)
(* recv_packet, second read and decoding: data_len bytes into              *)
(* recv_buf[0..data_len], then from_payload on that slice.                 *)
(***************************************************************************)
RecvPayloadReady ==
    /\ pc = "payload"
    /\ slice_in_range(recv_buf, hdr.data_len) => can_read(stream, status, hdr.data_len)

RecvPayload ==
    /\ RecvPayloadReady
    /\ IF ~slice_in_range(recv_buf, hdr.data_len)
       THEN /\ results' = Append(results,
                  Result(cur_start, HeaderLen, TRUE, hdr, <<>>, ParseErr("SlicePanic", 0)))
            /\ pc' = "aborted"
            /\ UNCHANGED <<stream, rpos, recv_buf>>
       ELSE LET r == read_exact(stream, status, hdr.data_len)
                filled == fill_slice(recv_buf, r.data)
                buf == payload_slice(filled, hdr.data_len)
                packet == from_payload(hdr.data_type, buf)
                consumed == HeaderLen + BLen(r.data)
            IN /\ stream' = r.rest
               /\ rpos' = rpos + BLen(r.data)
               /\ recv_buf' = filled
               /\ IF ~r.ok
                  THEN /\ results' = Append(results,
                             Result(cur_start, consumed, TRUE, hdr, <<>>, Connection))
                       /\ pc' = "idle"
                  ELSE /\ results' = Append(results,
                             Result(cur_start, consumed, TRUE, hdr, buf, packet))
                       /\ pc' = IF packet.kind = "Panic" THEN "aborted" ELSE "idle"
    /\ hdr' = NoHdr
    /\ UNCHANGED <<status, builder, log, cur_start, sent, last_send, nraw, nsend, ctor,
                   codec>>

(***************************************************************************)
(* Environment: the writer drops its connection; the transport fails; a    *)
(* peer that is not this program writes a byte.                            *)
(***************************************************************************)
Close ==
    /\ status = "open"
    /\ status' = "closed"
    /\ UNCHANGED <<stream, builder, recv_buf, pc, hdr, log, rpos, cur_start,
                   sent, last_send, results, nraw, nsend, ctor, codec>>

Break ==
    /\ status = "open"
    /\ status' = "broken"
    /\ UNCHANGED <<stream, builder, recv_buf, pc, hdr, log, rpos, cur_start,
                   sent, last_send, results, nraw, nsend, ctor, codec>>

PeerWrite ==
    /\ status = "open"
    /\ nraw < MaxRaw
    /\ \E b \in RawBytes :
         /\ stream' = BCat(stream, Fill(b, 1))
         /\ log' = BCat(log, Fill(b, 1))
    /\ nraw' = nraw + 1
    /\ UNCHANGED <<status, builder, recv_buf, pc, hdr, rpos, cur_start,
                   sent, last_send, results, nsend, ctor, codec>>

(***************************************************************************)
(* Two ends running this program.                                          *)
(***************************************************************************)
Next == SendPacket \/ RecvHeader \/ RecvPayload \/ Close \/ Break

Spec == Init /\ [][Next]_vars

(***************************************************************************)
(* This program receiving from an arbitrary peer.                          *)
(***************************************************************************)
NextPeer == PeerWrite \/ RecvHeader \/ RecvPayload \/ Close

SpecPeer == Init /\ [][NextPeer]_vars

(***************************************************************************)
(* The same with a shorter peer, and with progress.  A thread blocked in   *)
(* read_exact runs as soon as the bytes or the end of the stream are there *)
(* (RecvHeader, RecvPayload); the transport does not stay open for ever    *)
(* without delivering anything (Close).  The peer is under no obligation   *)
(* to write.  The weak fairness of RecvPayload is written out:             *)
(* RecvPayloadReady is ENABLED <<RecvPayload>>_vars, since every           *)
(* RecvPayload step resets hdr.                                            *)
(***************************************************************************)
PeerWriteLive == nraw < MaxLiveRaw /\ PeerWrite

NextLive == PeerWriteLive \/ RecvHeader \/ RecvPayload \/ Close

SpecLive ==
    /\ Init /\ [][NextLive]_vars
    /\ WF_vars(RecvHeader)
    /\ ([]<>~RecvPayloadReady) \/ ([]<><<RecvPayload>>_vars)
    /\ WF_vars(Close)

(***************************************************************************)
(* The codec alone: Packet::data_type, Packet::build and the framing of    *)
(* send_packet_enum applied to a packet, Packet::from_payload applied to   *)
(* the bytes built or to an arbitrary tag and byte string.                 *)
(***************************************************************************)
CodecInputs ==
    {[CodecIdle EXCEPT !.pc = "packet", !.origin = "packet", !.packet = m] :
        m \in Messages}
      \cup {[CodecIdle EXCEPT !.pc = "bytes", !.origin = "raw", !.tag = t, !.bytes = p] :
              t \in RawTags, p \in RawStrings(MaxPayload)}

CodecInit ==
    /\ stream = <<>>
    /\ status = "open"
    /\ builder \in {<<>>, finish(Unit)}
    /\ recv_buf = Fill(0, RecvBufLen)
    /\ pc = "idle"
    /\ hdr = NoHdr
    /\ log = <<>>
    /\ rpos = 0
    /\ cur_start = 0
    /\ sent = <<>>
    /\ last_send = NoSend
    /\ results = <<>>
    /\ nraw = 0
    /\ nsend = 0
    /\ ctor = Constructed
    /\ codec \in CodecInputs

CodecEncode ==
    /\ codec.pc = "packet"
    /\ LET f == encode_frame(codec.packet, builder)
           built == build(codec.packet, builder)
       IN /\ codec' = [codec EXCEPT !.pc = "bytes",
                                    !.tag = data_type(codec.packet),
                                    !.bytes = built.bytes,
                                    !.frame = f.joined]
          /\ builder' = built.builder
    /\ UNCHANGED <<stream, status, recv_buf, pc, hdr, log, rpos, cur_start,
                   sent, last_send, results, nraw, nsend, ctor>>

CodecDecode ==
    /\ codec.pc = "bytes"
    /\ codec' = [codec EXCEPT !.pc = "decoded",
                              !.result = from_payload(codec.tag, codec.bytes)]
    /\ UNCHANGED conn_vars

NextCodec == CodecEncode \/ CodecDecode

(***************************************************************************)
(* Construction alone: RLBotConnection::new applied to an address, with    *)
(* every outcome of connect and set_nodelay.  Before the call there is no  *)
(* stream, no builder and no scratch buffer.                               *)
(***************************************************************************)
NewInit ==
    /\ stream = <<>>
    /\ status = "closed"
    /\ builder = <<>>
    /\ recv_buf = <<>>
    /\ pc = "idle"
    /\ hdr = NoHdr
    /\ log = <<>>
    /\ rpos = 0
    /\ cur_start = 0
    /\ sent = <<>>
    /\ last_send = NoSend
    /\ results = <<>>
    /\ nraw = 0
    /\ nsend = 0
    /\ ctor \in {Ctor("args", a, TRUE, TRUE, NotCalled) : a \in Addresses}
    /\ codec = CodecIdle

RLBotNew ==
    /\ ctor.pc = "args"
    /\ \E connect_ok \in BOOLEAN, nodelay_ok \in BOOLEAN :
         LET out == new(ctor.addr, connect_ok, nodelay_ok)
         IN /\ ctor' = Ctor("done", ctor.addr, connect_ok, nodelay_ok, out)
            /\ status' = IF out.conn THEN "open" ELSE status
            /\ recv_buf' = IF out.conn THEN Fill(0, RecvBufLen) ELSE recv_buf
    /\ UNCHANGED <<stream, builder, pc, hdr, log, rpos, cur_start, sent, last_send,
                   results, nraw, nsend, codec>>

NextNew == RLBotNew

SpecNew == NewInit /\ [][NextNew]_vars

SpecCodec == CodecInit /\ [][NextCodec]_vars

TypeOK ==
    /\ status \in {"open", "closed", "broken"}
    /\ pc \in {"idle", "payload", "aborted"}
    /\ BLen(recv_buf) = U16Max
    /\ BDrop(log, rpos) = stream

(***************************************************************************)
(* Helpers of the properties.  The header fields are re-read from the      *)
(* history of the stream, big-endian, independently of the receiver.       *)
(***************************************************************************)
LogTag(off) == BAt(log, off + 1) * 256 + BAt(log, off + 2)
LogLen(off) == BAt(log, off + 3) * 256 + BAt(log, off + 4)
LogPayload(off) == BTake(BDrop(log, off + HeaderLen), LogLen(off))

ParseErrors == {"InvalidDataType", "InvalidFlatbuffer"}
PayloadTags == (1..13) \cup {15}
OkResults == SelectSeq(results, LAMBDA r : r.outcome.kind = "Ok")
FrameOf(m) == encode_frame(m, <<>>).joined

RECURSIVE FrameStart(_)
FrameStart(i) == IF i = 1 THEN 0 ELSE FrameStart(i - 1) + BLen(FrameOf(sent[i - 1]))

WellFormed(bytes) == read_as_root(bytes).ok /\ try_into(read_as_root(bytes)).ok

(***************************************************************************)
(* C1 -- Frame length invariant: in every frame send_packet writes, the    *)
(* 16-bit big-endian length field at offset 2..4 equals the number of      *)
(* payload bytes written after the 4-byte header.                          *)
(* Violated by the code: payload.len() as u16 wraps above 65535.           *)
(***************************************************************************)
C1_FrameLengthField ==
    last_send.result = "Ok" =>
        BAt(last_send.written, 3) * 256 + BAt(last_send.written, 4)
            = BLen(last_send.written) - HeaderLen

(***************************************************************************)
(* C2 -- Oversize payload rejection: a send_packet call whose serialized   *)
(* payload is larger than 65535 bytes returns an error and writes no byte. *)
(* Violated by the code: the call writes the frame and returns Ok.         *)
(***************************************************************************)
C2_OversizeRejected ==
    last_send.payload_len > U16Max =>
        /\ last_send.result # "Ok"
        /\ last_send.written = <<>>

(***************************************************************************)
(* C3 -- End-to-end delivery in order: the packets returned by the         *)
(* successful recv_packet calls are, in order, the packets sent, and the   *)
(* i-th of them consumed exactly the i-th frame of the stream.             *)
(* Violated by the code after an oversize send (C2).                       *)
(***************************************************************************)
C3_InOrderDelivery ==
    /\ Len(OkResults) <= Len(sent)
    /\ \A i \in 1..Len(OkResults) :
         i <= Len(sent) =>
            /\ OkResults[i].outcome.packet = sent[i]
            /\ OkResults[i].start = FrameStart(i)
            /\ OkResults[i].consumed = BLen(FrameOf(sent[i]))

(***************************************************************************)
(* C4 -- Codec round-trip: from_payload applied to data_type(m) and the    *)
(* bytes of m.build(builder) succeeds and yields m: the same variant with  *)
(* an equal payload, or the same sentinel.                                 *)
(***************************************************************************)
C4_RoundTrip ==
    (codec.pc = "decoded" /\ codec.origin = "packet") =>
        codec.result = ParseOk(codec.packet)

C4_Witness ==
    /\ codec.pc = "decoded"
    /\ codec.origin = "packet"
    /\ codec.packet.variant = "SetLoadout"
    /\ BLen(codec.bytes) > U16Max
    /\ builder # <<>>
    /\ codec.result.kind = "Ok"

(***************************************************************************)
(* C5 -- Recovery after a parse failure: a recv_packet call that fails     *)
(* with a PacketParseError on a frame whose header says length L has       *)
(* consumed exactly 4 + L bytes; the receiver can call again, and the next *)
(* call starts at the byte after the bad frame and returns what the frame  *)
(* found there decodes to.                                                 *)
(***************************************************************************)
C5_ParseFailureRecovery ==
    \A i \in 1..Len(results) :
        results[i].outcome.kind \in ParseErrors =>
            LET next == results[i].start + HeaderLen + LogLen(results[i].start)
            IN /\ results[i].consumed = HeaderLen + LogLen(results[i].start)
               /\ i = Len(results) => /\ pc \in {"idle", "payload"}
                                      /\ pc = "idle" => rpos = next
                                      /\ pc = "payload" => cur_start = next
               /\ i < Len(results) =>
                    /\ results[i + 1].start = next
                    /\ results[i + 1].got_header =>
                         /\ results[i + 1].data_type = LogTag(next)
                         /\ results[i + 1].data_len = LogLen(next)
                    /\ results[i + 1].outcome # Connection =>
                         results[i + 1].outcome
                            = from_payload(LogTag(next), LogPayload(next))

C5_Witness ==
    \E i \in 1..Len(results) :
        /\ results[i].outcome.kind \in ParseErrors
        /\ results[i].data_len > 0
        /\ i < Len(results)
        /\ results[i + 1].outcome.kind = "Ok"

(***************************************************************************)
(* C6 -- Malformed payload is an error value: from_payload applied to a    *)
(* payload-carrying tag (1..13, 15) and bytes that are not a well-formed   *)
(* encoding returns InvalidFlatbuffer; it never panics.                    *)
(* Violated by the code: try_into().unwrap() panics when read_as_root      *)
(* accepts the buffer and the conversion to the owned value fails.         *)
(***************************************************************************)
C6_MalformedIsError ==
    (/\ codec.pc = "decoded"
     /\ codec.tag \in PayloadTags
     /\ ~WellFormed(codec.bytes)) =>
        codec.result = ParseErr("InvalidFlatbuffer", 0)

(***************************************************************************)
(* C7 -- Truncated payload: a recv_packet call that read a complete header *)
(* and then met the end of the stream before the data_len payload bytes    *)
(* fails with RLBotError::Connection, whatever the tag of the header.      *)
(***************************************************************************)
Truncated(r) ==
    /\ r.got_header
    /\ BLen(log) >= r.start + HeaderLen
    /\ BLen(log) < r.start + HeaderLen + LogLen(r.start)

C7_TruncatedIsConnection ==
    \A i \in 1..Len(results) :
        Truncated(results[i]) => results[i].outcome = Connection

C7_Witness ==
    \E i \in 1..Len(results) :
        /\ Truncated(results[i])
        /\ results[i].consumed > HeaderLen
        /\ LogTag(results[i].start) > 15
        /\ results[i].outcome = Connection

(***************************************************************************)
(* C8 -- Unknown tag rejection: from_payload applied to a tag outside      *)
(* 0..15 fails with InvalidDataType carrying that tag, whatever the        *)
(* payload bytes.                                                          *)
(***************************************************************************)
C8_UnknownTagRejected ==
    (codec.pc = "decoded" /\ codec.tag \notin 0..15) =>
        codec.result = [kind |-> "InvalidDataType", packet |-> NoPacket,
                        tag |-> codec.tag]

C8_Witness ==
    /\ codec.pc = "decoded"
    /\ codec.tag = 9999
    /\ WellFormed(codec.bytes)
    /\ codec.result.kind = "InvalidDataType"

(***************************************************************************)
(* C9 -- Sentinel framing: the frame of Packet::None or InitComplete is    *)
(* exactly the 4 bytes tag (0 or 14) and length 0; from_payload applied to *)
(* tag 0 or 14 and any bytes yields None or InitComplete.                  *)
(***************************************************************************)
C9_SentinelFraming ==
    /\ (codec.pc \in {"bytes", "decoded"} /\ codec.origin = "packet") =>
          /\ codec.packet.variant = "None" => codec.frame = << <<0, 4>> >>
          /\ codec.packet.variant = "InitComplete" =>
                codec.frame = << <<0, 1>>, <<14, 1>>, <<0, 2>> >>
    /\ codec.pc = "decoded" =>
          /\ codec.tag = 0 =>
                codec.result = [kind |-> "Ok", packet |-> Pkt("None", Unit), tag |-> 0]
          /\ codec.tag = 14 =>
                codec.result = [kind |-> "Ok", packet |-> Pkt("InitComplete", Unit),
                                tag |-> 0]

C9_Witness ==
    /\ codec.pc = "decoded"
    /\ codec.origin = "raw"
    /\ codec.tag = 14
    /\ BLen(codec.bytes) = MaxPayload
    /\ codec.result.kind = "Ok"
    /\ codec.result.packet.variant = "InitComplete"

(***************************************************************************)
(* C10 -- Tag registry is a bijection: data_type gives the 16 variants 16  *)
(* distinct tags, exactly 0..15, and a successful from_payload on tag t    *)
(* yields the variant whose data_type is t.                                *)
(***************************************************************************)
C10_TagBijection ==
    /\ {data_type(Pkt(v, Unit)) : v \in Variants} = 0..15
    /\ \A v1, v2 \in Variants :
          data_type(Pkt(v1, Unit)) = data_type(Pkt(v2, Unit)) => v1 = v2
    /\ (codec.pc = "decoded" /\ codec.result.kind = "Ok") =>
          /\ data_type(codec.result.packet) = codec.tag
          /\ codec.origin = "packet" =>
                codec.result.packet.variant = codec.packet.variant

C10_Witness ==
    /\ codec.pc = "decoded"
    /\ codec.origin = "raw"
    /\ codec.tag = 15
    /\ codec.result.kind = "Ok"
    /\ codec.result.packet.variant = "ControllableTeamInfo"

(***************************************************************************)
(* C11 -- Wire layout: the bytes send_packet hands to the stream are the   *)
(* tag as 2 big-endian bytes, the payload length as 2 big-endian bytes and *)
(* the payload, one buffer of 4 + payload length bytes; recv_packet reads  *)
(* the first 2 header bytes as the big-endian tag and the next 2 as the    *)
(* big-endian length.                                                      *)
(* Violated by the code for a payload above 65535 bytes (C1, C2): bytes    *)
(* 2..4 then hold the length modulo 65536.                                 *)
(***************************************************************************)
C11_WireLayout ==
    /\ last_send.result = "Ok" =>
          LET w == last_send.written
              payload == finish(last_send.packet.payload)
              n == IF last_send.packet.variant \in Sentinels THEN 0 ELSE BLen(payload)
          IN /\ BLen(w) = HeaderLen + n
             /\ BAt(w, 1) * 256 + BAt(w, 2) = data_type(last_send.packet)
             /\ BAt(w, 3) * 256 + BAt(w, 4) = n
             /\ last_send.packet.variant \in PayloadVariants =>
                   BDrop(w, HeaderLen) = payload
    /\ \A i \in 1..Len(results) :
          results[i].got_header =>
             /\ results[i].data_type = LogTag(results[i].start)
             /\ results[i].data_len = LogLen(results[i].start)

(***************************************************************************)
(* C15 -- Encoding does not depend on history: the frame send_packet       *)
(* writes for a packet is the frame a fresh builder gives, whatever was    *)
(* sent before on the connection, and its first two bytes are the tag of   *)
(* the variant in the tag table.                                           *)
(***************************************************************************)
TagTable ==
    <<"None", "GamePacket", "FieldInfo", "StartCommand", "MatchConfiguration",
      "PlayerInput", "DesiredGameState", "RenderGroup", "RemoveRenderGroup",
      "MatchComm", "BallPrediction", "ConnectionSettings", "StopCommand",
      "SetLoadout", "InitComplete", "ControllableTeamInfo">>

C15_HistoryIndependent ==
    last_send.written # <<>> =>
        /\ last_send.written = FrameOf(last_send.packet)
        /\ BAt(last_send.written, 1) = 0
        /\ TagTable[BAt(last_send.written, 2) + 1] = last_send.packet.variant

C15_Witness ==
    /\ Len(sent) = 2
    /\ sent[1].variant = "MatchComm"
    /\ BLen(sent[1].payload.content) = 1
    /\ sent[2].variant = "GamePacket"
    /\ last_send.packet = sent[2]
    /\ last_send.written = FrameOf(sent[2])

(***************************************************************************)
(* C13 -- Scratch buffer always fits: recv_buf has the size of the largest *)
(* length a header can carry, 65535; for every header recv_packet takes    *)
(* the slice recv_buf[0..data_len] without leaving the array, the bytes    *)
(* handed to the decoder are exactly data_len bytes, and the array keeps   *)
(* its size.                                                               *)
(***************************************************************************)
C13_ScratchBufferFits ==
    /\ BLen(recv_buf) = U16Max
    /\ pc = "payload" => hdr.data_len <= BLen(recv_buf)
    /\ \A i \in 1..Len(results) :
          results[i].got_header =>
             /\ results[i].outcome.kind # "SlicePanic"
             /\ results[i].outcome # Connection =>
                   BLen(results[i].decoded) = results[i].data_len

C13_Witness ==
    \E i \in 1..Len(results) :
        /\ results[i].got_header
        /\ results[i].data_len = U16Max
        /\ BLen(results[i].decoded) = U16Max
        /\ results[i].outcome.kind = "Ok"

(***************************************************************************)
(* C14 -- No stale bytes are decoded: whatever the earlier recv_packet     *)
(* calls did, the bytes a call hands to from_payload are exactly the       *)
(* data_len bytes that follow its header on the stream.                    *)
(***************************************************************************)
C14_NoStaleBytes ==
    \A i \in 1..Len(results) :
        (/\ results[i].got_header
         /\ results[i].outcome.kind \notin {"Connection", "SlicePanic"}) =>
            results[i].decoded = LogPayload(results[i].start)

C14_Witness ==
    /\ Len(results) >= 2
    /\ pc = "idle"
    /\ LET prev == results[Len(results) - 1]
           last == results[Len(results)]
       IN /\ prev.outcome.kind \in ParseErrors
          /\ prev.data_len > last.data_len
          /\ last.got_header
          /\ last.outcome.kind = "Ok"
          /\ BAt(recv_buf, last.data_len + 1) # 0

(***************************************************************************)
(* C16 -- Send failure is terminal and not retried: one send_packet call   *)
(* writes the frame at most once and flushes at most once; after a failed  *)
(* write nothing is on the stream and the flush is not attempted; a failed *)
(* write or a failed flush is returned as RLBotError::Connection, and the  *)
(* call does not reconnect.                                                *)
(***************************************************************************)
C16_SendFailureTerminal ==
    /\ last_send.writes <= 1
    /\ last_send.flushes <= 1
    /\ ~last_send.write_ok =>
          /\ last_send.result = "Connection"
          /\ last_send.flushes = 0
          /\ last_send.written = <<>>
    /\ (last_send.write_ok /\ ~last_send.flush_ok) => last_send.result = "Connection"
    /\ last_send.result = "Ok" => (last_send.write_ok /\ last_send.flush_ok)
    /\ last_send.result = "Connection" => status = "broken"

C16_Witness ==
    /\ Len(sent) >= 1
    /\ ~last_send.write_ok
    /\ last_send.writes = 1
    /\ last_send.flushes = 0
    /\ last_send.result = "Connection"
    /\ last_send.packet.variant \in PayloadVariants

(***************************************************************************)
(* C12 -- Construction outcomes: new on a malformed address fails with     *)
(* InvalidAddrError without attempting to open a stream; a failed connect  *)
(* or a failed set_nodelay fails with a Connection error and returns no    *)
(* connection; every connection returned has nodelay set and its scratch   *)
(* buffer allocated.                                                       *)
(***************************************************************************)
C12_ConstructionOutcomes ==
    ctor.pc = "done" =>
        /\ ~from_str(ctor.addr).ok =>
              /\ ctor.result = "InvalidAddrError"
              /\ ~ctor.attempted
        /\ (from_str(ctor.addr).ok /\ (~ctor.connect_ok \/ ~ctor.nodelay_ok)) =>
              ctor.result = "Connection"
        /\ ctor.result # "Ok" => (~ctor.conn /\ status # "open")
        /\ ctor.result = "Ok" =>
              /\ ctor.conn
              /\ ctor.nodelay
              /\ status = "open"
              /\ recv_buf = Fill(0, U16Max)

C12_Witness ==
    /\ ctor.pc = "done"
    /\ from_str(ctor.addr).ok
    /\ ctor.connect_ok
    /\ ~ctor.nodelay_ok
    /\ ctor.result = "Connection"
    /\ ~ctor.conn
    /\ recv_buf = <<>>

(***************************************************************************)
(* C17 -- Receive eventually returns: under a transport that eventually    *)
(* delivers the rest of the frame or closes, every recv_packet call        *)
(* eventually returns a Packet or an error, and a call that met the end of *)
(* the stream before the 4 header bytes were complete returns a            *)
(* Connection error.                                                       *)
(* Violated by the code: the call that decodes a payload read_as_root      *)
(* accepts and try_into rejects panics (C6), it returns nothing.           *)
(***************************************************************************)
Returned == {"Ok", "Connection"} \cup ParseErrors

HeaderEofIsConnection ==
    \A i \in 1..Len(results) :
        ~results[i].got_header =>
            (results[i].consumed < HeaderLen /\ results[i].outcome = Connection)

C17_RecvEventuallyReturns ==
    /\ []HeaderEofIsConnection
    /\ \A n \in 0..(MaxRecv - 1) :
         (Len(results) = n /\ pc # "aborted") ~>
             (Len(results) > n /\ results[n + 1].outcome.kind \in Returned)

\* what the code does guarantee: every call ends, by a return or by a panic
RecvEventuallyEnds ==
    /\ []HeaderEofIsConnection
    /\ \A n \in 0..(MaxRecv - 1) :
         (Len(results) = n /\ pc # "aborted") ~> (Len(results) > n)

====
